---- MODULE Spec2Model ----
(***************************************************************************)
(* Scorecard Chat (src/app.py): the session state of the Streamlit script, *)
(* the two pages (modal_page, chat_page), the history fetch and the        *)
(* WebSocket exchange, as a state machine.  One script run is one or more  *)
(* steps: a run that processes a pending message is split at the call of   *)
(* send_websocket_message, inside it at every network operation, and at    *)
(* its return.  The bearer token (auth_token), which only adds a header to *)
(* the two requests, and the rendering of the pages are left out.          *)
(***************************************************************************)
EXTENDS Naturals, Sequences, FiniteSets

(***************************************************************************)
(* Bounds of the model.                                                    *)
(***************************************************************************)
\* calls of send_websocket_message in one behaviour
MaxExchanges == 2
\* non-empty frames the backend delivers in one exchange
MaxFrames == 2

(***************************************************************************)
(* Python values.  A str is a tuple of characters; a value that may be a   *)
(* str, None or a missing dict key is a record [k, s].                     *)
(***************************************************************************)
Str(t) ==
    [k |-> "str", s |-> t]

None ==
    [k |-> "none", s |-> <<>>]

\* the key is not in the dict
Absent ==
    [k |-> "absent", s |-> <<>>]

\* bool(v) of a str or None
Truthy(v) ==
    v.k = "str" /\ Len(v.s) > 0

UpperChars ==
    <<"A", "B", "C", "D", "E", "F", "G", "H", "I", "J", "K", "L", "M",
      "N", "O", "P", "Q", "R", "S", "T", "U", "V", "W", "X", "Y", "Z">>

LowerChars ==
    <<"a", "b", "c", "d", "e", "f", "g", "h", "i", "j", "k", "l", "m",
      "n", "o", "p", "q", "r", "s", "t", "u", "v", "w", "x", "y", "z">>

LowerChar(c) ==
    IF \E i \in DOMAIN UpperChars : UpperChars[i] = c
    THEN LowerChars[CHOOSE i \in DOMAIN UpperChars : UpperChars[i] = c]
    ELSE c

\* str.lower()
Lower(t) ==
    [i \in DOMAIN t |-> LowerChar(t[i])]

IsSpace(c) ==
    c \in {" ", "\t", "\n", "\r"}

\* str.strip(): leading and trailing whitespace removed
Strip(t) ==
    LET keep == {i \in DOMAIN t : ~IsSpace(t[i])}
    IN  IF keep = {} THEN <<>>
        ELSE LET lo == CHOOSE i \in keep : \A j \in keep : i <= j
                 hi == CHOOSE i \in keep : \A j \in keep : j <= i
             IN  SubSeq(t, lo, hi)

\* 'connection established', the literal of line 284
CONNECTION_ESTABLISHED ==
    <<"c", "o", "n", "n", "e", "c", "t", "i", "o", "n", " ",
      "e", "s", "t", "a", "b", "l", "i", "s", "h", "e", "d">>

\* 'Response received', the default of lines 281 and 331
RESPONSE_RECEIVED ==
    <<"R", "e", "s", "p", "o", "n", "s", "e", " ",
      "r", "e", "c", "e", "i", "v", "e", "d">>

(***************************************************************************)
(* Scorecard sections.  A section value is a dict of fields, here a set of *)
(* <<key, value>> pairs; [k |-> "absent"] is a key the dict does not hold. *)
(***************************************************************************)
SectionNames ==
    {"outcomes", "culture", "boss_style", "situation", "requirements",
     "competencies", "mission"}

NoSection ==
    [k |-> "absent", d |-> {}]

Dict(d) ==
    [k |-> "dict", d |-> d]

\* bool(data.get(name)) of a section value
SectionTruthy(v) ==
    v.k = "dict" /\ v.d # {}

\* st.session_state.scorecard_state = {}
EmptyState ==
    [n \in SectionNames |-> NoSection]

V1 ==
    Dict({<<"team_size", "5">>})

V2 ==
    Dict({<<"budget", "high">>})

\* section payloads of a reply's data
PNone ==
    [n \in SectionNames |-> NoSection]

PSit ==
    [n \in SectionNames |-> IF n = "situation" THEN V1 ELSE NoSection]

PAllV2 ==
    [n \in SectionNames |-> V2]

PAllEmpty ==
    [n \in SectionNames |-> Dict({})]

PAllV1 ==
    [n \in SectionNames |-> V1]

(***************************************************************************)
(* Frames: what one ws.recv() returns.  text is "empty" for '', "bad" for  *)
(* text json.loads rejects, "json" otherwise; json is "dict", "list" (a     *)
(* non-empty JSON array) or "null"; the remaining fields are the keys of a *)
(* dict frame.  text = "none" is Python's None, the value of no frame.     *)
(***************************************************************************)
Frame(text, json, type, data, d_content, d_thread, d_sections, content) ==
    [text |-> text, json |-> json, type |-> type, data |-> data,
     d_content |-> d_content, d_thread |-> d_thread,
     d_sections |-> d_sections, content |-> content]

NoFrame ==
    Frame("none", "none", "absent", "absent", Absent, Absent, PNone, Absent)

EmptyText ==
    Frame("empty", "none", "absent", "absent", Absent, Absent, PNone, Absent)

BadText ==
    Frame("bad", "none", "absent", "absent", Absent, Absent, PNone, Absent)

\* [1]
ListFrame ==
    Frame("json", "list", "absent", "absent", Absent, Absent, PNone, Absent)

\* null
NullFrame ==
    Frame("json", "null", "absent", "absent", Absent, Absent, PNone, Absent)

\* {"type": "ai_message", "data": {...}}
Ai(c, t, p) ==
    Frame("json", "dict", "ai_message", "dict", c, t, p, Absent)

\* a dict frame with no data envelope
Plain(type, content) ==
    Frame("json", "dict", type, "absent", Absent, Absent, PNone, content)

\* {}
EmptyDict ==
    Plain("absent", Absent)

GREAT ==
    <<"G", "r", "e", "a", "t">>

\* ' Connection Established\n'
CE_VARIANT ==
    <<" ", "C", "o", "n", "n", "e", "c", "t", "i", "o", "n", " ",
      "E", "s", "t", "a", "b", "l", "i", "s", "h", "e", "d", "\n">>

T1 ==
    <<"a", "b", "c", "1", "2", "3">>

T2 ==
    <<"x", "y", "z">>

\* {"type": "status", "data": {"thread_id": "abc123", "situation": {...}}}
StatusData ==
    Frame("json", "dict", "status", "dict", Absent, Str(T1), PSit, Absent)

AiFrames ==
    {Ai(Str(c), tp[1], tp[2]) :
        c \in {CE_VARIANT, GREAT},
        tp \in {<<Absent, PNone>>, <<Str(T1), PSit>>, <<Str(T2), PAllV2>>}}
    \cup {Ai(Str(CONNECTION_ESTABLISHED), Str(<<>>), PAllEmpty),
          Ai(Str(GREAT), None, PAllEmpty),
          Ai(Absent, Absent, PSit),
          Ai(Str(<<>>), Absent, PNone),
          Ai(None, Str(T1), PSit)}

OtherFrames ==
    {EmptyText, BadText, ListFrame, NullFrame, EmptyDict, StatusData,
     Plain("ai_message", Str(GREAT)),
     Plain("absent", Str(GREAT)),
     Frame("json", "dict", "status", "dict", Str(GREAT), Absent, PNone, Absent),
     Frame("json", "dict", "status", "null", Absent, Absent, PNone, Str(GREAT)),
     Frame("json", "dict", "ai_message", "null", Absent, Absent, PNone, Absent)}

\* the frames the backend may deliver
Frames ==
    AiFrames \cup OtherFrames

(***************************************************************************)
(* The pure parts of chat_page's handling of a response (lines 277-336).   *)
(***************************************************************************)
\* line 277 left out: every result is handled as a reply
ResponseTruthyAlways(r) ==
    TRUE

\* `if response:` (line 277): None and {} are falsy
ResponseTruthy(r) ==
    /\ r.text # "none"
    /\ ~(r.json = "dict" /\ r.type = "absent" /\ r.data = "absent"
         /\ r.content.k = "absent")

\* line 279 testing only 'data' in response
IsEnvelopeWithData(r) ==
    r.data # "absent"

\* response.get('type') == 'ai_message' and 'data' in response (line 279)
IsAiEnvelope(r) ==
    r.type = "ai_message" /\ r.data # "absent"

\* response['data'].get('content', 'Response received') (line 281)
DataContent(r) ==
    IF r.d_content.k = "absent" THEN Str(RESPONSE_RECEIVED) ELSE r.d_content

\* line 284 without .lower().strip()
IsSentinelExact(c) ==
    c.s = CONNECTION_ESTABLISHED

\* content.lower().strip() == 'connection established' (line 284)
IsSentinel(c) ==
    Strip(Lower(c.s)) = CONNECTION_ESTABLISHED

\* the statements of lines 279-284 that raise AttributeError: .get of a
\* list (279), .get of a data that is no dict (281), .lower of a content
\* that is no str (284)
ApplyRaises(r) ==
    \/ r.json = "list"
    \/ IsAiEnvelope(r) /\ r.data # "dict"
    \/ IsAiEnvelope(r) /\ DataContent(r).k # "str"

\* lines 286 and 305 testing the key's presence, not its value
UpdateThreadIfPresent(tid, r) ==
    IF r.d_thread.k # "absent" THEN r.d_thread ELSE tid

\* lines 286-287 and 305-306
UpdateThread(tid, r) ==
    IF Truthy(r.d_thread) THEN r.d_thread ELSE tid

\* lines 289-302 without the last statement (lines 301-302)
UpdateSectionsSentinelNoMission(state, r) ==
    [n \in SectionNames |->
        IF n \in {"outcomes", "culture", "boss_style", "situation",
                  "requirements", "competencies"}
           /\ SectionTruthy(r.d_sections[n])
        THEN r.d_sections[n] ELSE state[n]]

\* lines 289-302, the sentinel branch
UpdateSectionsSentinel(state, r) ==
    [n \in SectionNames |->
        IF n \in {"outcomes", "culture", "boss_style", "situation",
                  "requirements", "competencies", "mission"}
           /\ SectionTruthy(r.d_sections[n])
        THEN r.d_sections[n] ELSE state[n]]

\* lines 309-322, the other branch
UpdateSections(state, r) ==
    [n \in SectionNames |->
        IF n \in {"outcomes", "culture", "boss_style", "situation",
                  "requirements", "competencies", "mission"}
           /\ SectionTruthy(r.d_sections[n])
        THEN r.d_sections[n] ELSE state[n]]

\* response.get('content', 'Response received') (line 331)
LegacyContent(r) ==
    IF r.content.k = "absent" THEN Str(RESPONSE_RECEIVED) ELSE r.content

Msg(role, content) ==
    [role |-> role, content |-> content]

\* lines 325-328 appending the normalised content of line 284
ApplyMessagesNormalised(log, r) ==
    IF ~ResponseTruthy(r) THEN log
    ELSE IF IsAiEnvelope(r)
         THEN IF IsSentinel(DataContent(r)) THEN log
              ELSE Append(log, Msg("assistant",
                                   Str(Strip(Lower(DataContent(r).s)))))
         ELSE Append(log, Msg("assistant", LegacyContent(r)))

\* lines 277-336 taking the user message back when there is no reply
ApplyMessagesRollback(log, r) ==
    IF ~ResponseTruthy(r) THEN SubSeq(log, 1, Len(log) - 1)
    ELSE IF IsAiEnvelope(r)
         THEN IF IsSentinel(DataContent(r)) THEN log
              ELSE Append(log, Msg("assistant", DataContent(r)))
         ELSE Append(log, Msg("assistant", LegacyContent(r)))

\* the message log after lines 277-336, when nothing raises
ApplyMessages(log, r) ==
    IF ~ResponseTruthy(r) THEN log
    ELSE IF IsAiEnvelope(r)
         THEN IF IsSentinel(DataContent(r)) THEN log
              ELSE Append(log, Msg("assistant", DataContent(r)))
         ELSE Append(log, Msg("assistant", LegacyContent(r)))

\* the thread id after lines 277-336
ApplyThread(tid, r) ==
    IF ResponseTruthy(r) /\ IsAiEnvelope(r) THEN UpdateThread(tid, r) ELSE tid

\* the scorecard state after lines 277-336
ApplyState(state, r) ==
    IF ResponseTruthy(r) /\ IsAiEnvelope(r)
    THEN IF IsSentinel(DataContent(r)) THEN UpdateSectionsSentinel(state, r)
         ELSE UpdateSections(state, r)
    ELSE state

(***************************************************************************)
(* The receive loop's handling of one frame (lines 96-114).                *)
(***************************************************************************)
\* line 99 placed before line 98: the text is recorded before it is parsed
FrameRecordedUnparsed(f) ==
    f.text \in {"json", "bad"}

\* `if response:` (line 97) and json.loads (line 98) succeed
FrameRecorded(f) ==
    f.text = "json"

\* json.loads(response) (line 98): the text null gives None
Loads(f) ==
    IF f.json = "null" THEN NoFrame ELSE f

\* responses.append (line 99); of the list the model keeps the last
\* MaxFrames entries
Recorded(rs, v) ==
    IF Len(rs) < MaxFrames THEN Append(rs, v) ELSE Append(Tail(rs), v)

\* lines 102-107 without the test of line 106
FrameBreaksOnAiOnly(f) ==
    \/ f.text = "bad"
    \/ f.text = "json" /\ f.json \in {"list", "null"}
    \/ f.text = "json" /\ f.json = "dict" /\ f.type = "ai_message"
    \/ f.text = "json" /\ f.json = "dict" /\ f.type # "ai_message"
       /\ f.data = "null"

\* the frame ends the loop: a break of lines 103 or 107, or an exception
\* of lines 98-106 caught at line 112
FrameBreaks(f) ==
    \/ f.text = "bad"
    \/ f.text = "json" /\ f.json \in {"list", "null"}
    \/ f.text = "json" /\ f.json = "dict" /\ f.type = "ai_message"
    \/ f.text = "json" /\ f.json = "dict" /\ f.type # "ai_message"
       /\ f.data = "null"
    \/ f.text = "json" /\ f.json = "dict" /\ f.type # "ai_message"
       /\ f.data = "dict" /\ Truthy(f.d_content)

\* how a frame that ends the loop ends it: "break" (line 103 or 107),
\* "decode" (json.loads raised, line 98) or "error" (.get raised, line 102
\* or 106); the last two are caught at line 112
StopCause(f) ==
    IF f.text = "bad" THEN "decode"
    ELSE IF f.text = "json" /\ f.json = "dict"
            /\ (f.type = "ai_message" \/ f.data = "dict")
         THEN "break" ELSE "error"

\* lines 117-120 returning the first response
LoopResultFirst(rs) ==
    IF Len(rs) > 0 THEN rs[1] ELSE NoFrame

\* lines 117-120
LoopResult(rs) ==
    IF Len(rs) > 0 THEN rs[Len(rs)] ELSE NoFrame

(***************************************************************************)
(* What the user and the two services may supply.                          *)
(***************************************************************************)
HI ==
    <<"h", "i">>

\* ' hi\n'
HI_PADDED ==
    <<" ", "h", "i", "\n">>

\* the texts of the chat form's input: '', 'hi' and ' hi\n'
UserInputs ==
    {<<>>, HI, HI_PADDED}

JOB ==
    <<"S", "E">>

JobTitles ==
    {<<>>, JOB}

ThreadInputs ==
    {<<>>, T1}

HistMessages ==
    <<Msg("user", Str(HI)), Msg("assistant", Str(GREAT))>>

\* a response of GET /history/<thread_id>: "ok" is a 200 whose body is a
\* JSON object (messages and state may be missing), "body" a 200 whose
\* body is not one, "status" any other status, "raise" a failed request
HistoryResults ==
    {[kind |-> "ok", has_messages |-> TRUE, body_messages |-> HistMessages,
      has_state |-> TRUE, body_state |-> PAllV1],
     [kind |-> "ok", has_messages |-> FALSE, body_messages |-> <<>>,
      has_state |-> TRUE, body_state |-> PSit],
     [kind |-> "ok", has_messages |-> FALSE, body_messages |-> <<>>,
      has_state |-> FALSE, body_state |-> EmptyState]}
    \cup {[kind |-> k, has_messages |-> FALSE, body_messages |-> <<>>,
           has_state |-> FALSE, body_state |-> EmptyState] :
             k \in {"status", "raise", "body"}}

(***************************************************************************)
(* State.                                                                  *)
(***************************************************************************)
VARIABLES
    \* st.session_state
    current_page, job_title, thread_id, messages, scorecard_state,
    is_loading, pending_message,
    \* where the script is: "idle" (no run; waiting for the user), "L188",
    \* "L194", "L203", "L253", "L342" (the st.rerun() of that line was
    \* called), "ws_connect", "ws_send", "ws_recv", "ws_close" (inside
    \* send_websocket_message), "apply" (it returned, line 277)
    pc,
    \* the last widget event: its kind and the text submitted with it
    event,
    \* what st.error, st.info and st.success showed in the last run
    notices,
    \* send_websocket_message: the envelope, the connection, the frames
    \* recorded (the last MaxFrames of them), the frames read (counted up to
    \* MaxFrames), how the receive loop ended ("break": lines 103/107,
    \* "timeout": line 111, "decode" and "error": line 114), whether an
    \* exception is propagating to line 129
    message, ws, responses, nrecv, stopped, raised,
    \* chat_page's response (line 270)
    response,
    \* load_chat_history's response (line 50) in the last run of modal_page
    \* that clicked Continue; NoHistory when that run made no request
    history,
    \* the calls of send_websocket_message so far
    sendCalls

session ==
    <<current_page, job_title, thread_id, messages, scorecard_state,
      is_loading, pending_message>>

exchange ==
    <<message, ws, responses, nrecv, stopped, raised>>

vars ==
    <<session, exchange, pc, event, notices, response, history, sendCalls>>

NoHistory ==
    [kind |-> "none", has_messages |-> FALSE, body_messages |-> <<>>,
     has_state |-> FALSE, body_state |-> EmptyState]

NoMessage ==
    [type |-> "none", job_title |-> <<>>, content |-> <<>>,
     thread_id |-> Absent]

Event(kind, text) ==
    [kind |-> kind, text |-> text]

\* lines 25-41
Init ==
    /\ current_page = "modal"
    /\ job_title = <<>>
    /\ thread_id = Str(<<>>)
    /\ messages = <<>>
    /\ scorecard_state = EmptyState
    /\ is_loading = FALSE
    /\ pending_message = Absent
    /\ pc = "idle"
    /\ event = Event("none", <<>>)
    /\ notices = {}
    /\ message = NoMessage
    /\ ws = "none"
    /\ responses = <<>>
    /\ nrecv = 0
    /\ stopped = "none"
    /\ raised = FALSE
    /\ response = NoFrame
    /\ history = NoHistory
    /\ sendCalls = 0

(***************************************************************************)
(* modal_page: the Continue button (lines 178-194) with load_chat_history  *)
(* (lines 43-61).                                                          *)
(***************************************************************************)
\* load_chat_history's result and its effect on the session
HistoryLoaded(h) ==
    h.kind = "ok"

\* line 53 with the session's log as the default
LoadedMessagesOrOld(old, h) ==
    IF h.has_messages THEN h.body_messages ELSE old

\* data.get('messages', []) (line 53)
LoadedMessages(old, h) ==
    IF h.has_messages THEN h.body_messages ELSE <<>>

\* data.get('state', {}) (line 54)
LoadedState(old, h) ==
    IF h.has_state THEN h.body_state ELSE EmptyState

HistoryNotices(h) ==
    CASE h.kind = "ok" -> {}
      [] h.kind = "status" ->
            {"Failed to load chat history",
             "Failed to load existing conversation"}
      [] OTHER ->
            {"Error loading chat history",
             "Failed to load existing conversation"}

ModalSubmit(title, thread, h) ==
    /\ current_page = "modal"
    /\ pc = "idle"
    /\ event' = Event("submit", title)
    /\ UNCHANGED <<is_loading, pending_message, exchange, response, sendCalls>>
    /\ history' = IF title # <<>> /\ thread # <<>> THEN h ELSE NoHistory
    /\ IF title = <<>>
       THEN /\ notices' = {}
            /\ UNCHANGED <<current_page, job_title, thread_id, messages,
                           scorecard_state, pc>>
       ELSE /\ job_title' = title
            /\ thread_id' = IF thread # <<>> THEN Str(thread) ELSE None
            /\ IF thread # <<>>
               THEN /\ notices' = HistoryNotices(h)
                    /\ IF HistoryLoaded(h)
                       THEN /\ messages' = LoadedMessages(messages, h)
                            /\ scorecard_state' =
                                  LoadedState(scorecard_state, h)
                            /\ current_page' = "chat"
                            /\ pc' = "L188"
                       ELSE UNCHANGED <<messages, scorecard_state,
                                        current_page, pc>>
               ELSE /\ notices' = {}
                    /\ current_page' = "chat"
                    /\ pc' = "L194"
                    /\ UNCHANGED <<messages, scorecard_state>>

(***************************************************************************)
(* chat_page up to the call of send_websocket_message (lines 199-275).     *)
(***************************************************************************)
\* the message of lines 66-72
Envelope(title, content, tid) ==
    [type |-> "user_message", job_title |-> title, content |-> content,
     thread_id |-> IF Truthy(tid) THEN tid ELSE Absent]

\* line 249
SendAccepted(ev) ==
    ev.kind = "send" /\ ev.text # <<>> /\ ~is_loading

\* line 260
HasPending ==
    is_loading /\ pending_message.k # "absent"

\* st.info of line 257 and st.success of line 436
RunNotices(ev) ==
    CASE ev.kind = "save" -> {"Draft saved!"}
      [] ev.kind = "complete" /\ ~HasPending -> {"Scorecard completed!"}
      [] OTHER -> {}

\* lines 264-267 left to after the call
OptimisticAppendLate(log, pending) ==
    log

\* lines 264-267: the user message is added to the log
OptimisticAppend(log, pending) ==
    Append(log, Msg("user", pending))

\* one run of chat_page, started by the widget event ev or, for
\* Event("rerun", <<>>), by st.rerun()
ChatScript(ev) ==
    /\ UNCHANGED history
    /\ IF ev.kind = "back"
       THEN \* lines 201-203
            /\ current_page' = "modal"
            /\ pc' = "L203"
            /\ notices' = {}
            /\ UNCHANGED <<job_title, thread_id, messages, scorecard_state,
                           is_loading, pending_message, exchange, response,
                           sendCalls>>
       ELSE IF SendAccepted(ev)
       THEN \* lines 249-253
            /\ sendCalls < MaxExchanges
            /\ is_loading' = TRUE
            /\ pending_message' = Str(Strip(ev.text))
            /\ pc' = "L253"
            /\ notices' = {}
            /\ UNCHANGED <<current_page, job_title, thread_id, messages,
                           scorecard_state, exchange, response, sendCalls>>
       ELSE IF HasPending
       THEN \* lines 260-275
            /\ sendCalls < MaxExchanges
            /\ messages' = OptimisticAppend(messages, pending_message)
            /\ message' = Envelope(job_title, pending_message.s, thread_id)
            /\ ws' = "none"
            /\ responses' = <<>>
            /\ nrecv' = 0
            /\ stopped' = "none"
            /\ raised' = FALSE
            /\ response' = NoFrame
            /\ sendCalls' = sendCalls + 1
            /\ pc' = "ws_connect"
            /\ notices' = RunNotices(ev)
            /\ UNCHANGED <<current_page, job_title, thread_id,
                           scorecard_state, is_loading, pending_message>>
       ELSE \* the run ends after line 436
            /\ pc' = "idle"
            /\ notices' = RunNotices(ev)
            /\ response' = NoFrame
            /\ UNCHANGED <<session, exchange, sendCalls>>

ChatEvents ==
    {Event("back", <<>>), Event("complete", <<>>)}
    \cup {Event("send", t) : t \in UserInputs}
    \cup {Event("save", t) : t \in {<<>>, HI}}

\* a widget of the chat page starts a run
ChatRun(ev) ==
    /\ current_page = "chat"
    /\ pc = "idle"
    /\ event' = ev
    /\ ChatScript(ev)

Rerunning ==
    pc \in {"L188", "L194", "L203", "L253", "L342"}

\* the run st.rerun() starts: main() with no widget event
Rerun ==
    /\ Rerunning
    /\ UNCHANGED event
    /\ IF current_page = "chat"
       THEN ChatScript(Event("rerun", <<>>))
       ELSE /\ pc' = "idle"
            /\ notices' = {}
            /\ response' = NoFrame
            /\ UNCHANGED <<session, exchange, history, sendCalls>>

(***************************************************************************)
(* send_websocket_message (lines 74-131).                                  *)
(***************************************************************************)
\* websocket.create_connection (lines 79-83); it raises to line 129
WsConnect ==
    /\ pc = "ws_connect"
    /\ \E ok \in BOOLEAN :
          IF ok
          THEN /\ ws' = "open"
               /\ pc' = "ws_send"
               /\ UNCHANGED <<notices, response>>
          ELSE /\ notices' = notices \cup {"WebSocket error"}
               /\ response' = NoFrame
               /\ pc' = "apply"
               /\ UNCHANGED ws
    /\ UNCHANGED <<session, event, message, responses, nrecv, stopped,
                   raised, history, sendCalls>>

\* ws.send and ws.settimeout (lines 87-93)
WsSend ==
    /\ pc = "ws_send"
    /\ \E ok \in BOOLEAN :
          IF ok
          THEN /\ pc' = "ws_recv"
               /\ raised' = FALSE
          ELSE /\ pc' = "ws_close"
               /\ raised' = TRUE
    /\ UNCHANGED <<session, event, notices, message, ws, responses, nrecv,
                   stopped, response, history, sendCalls>>

\* one ws.recv() of the loop (lines 94-114)
WsRecv ==
    /\ pc = "ws_recv"
    /\ \/ \E f \in Frames :
            /\ nrecv' = IF nrecv < MaxFrames THEN nrecv + 1 ELSE nrecv
            /\ responses' = IF FrameRecorded(f)
                            THEN Recorded(responses, Loads(f))
                            ELSE responses
            /\ IF FrameBreaks(f)
               THEN /\ pc' = "ws_close"
                    /\ stopped' = StopCause(f)
               ELSE UNCHANGED <<pc, stopped>>
       \/ /\ pc' = "ws_close"
          /\ stopped' = "timeout"
          /\ UNCHANGED <<responses, nrecv>>
       \/ /\ pc' = "ws_close"
          /\ stopped' = "error"
          /\ UNCHANGED <<responses, nrecv>>
    /\ UNCHANGED <<session, event, notices, message, ws, raised, response,
                   history, sendCalls>>

\* lines 122-127 without the try around ws.close(): its exception replaces
\* the result and is caught at line 129
WsClosePropagating ==
    /\ pc = "ws_close"
    /\ \E ok \in BOOLEAN :
          /\ ws' = IF ok THEN "closed" ELSE "close_failed"
          /\ IF raised \/ ~ok
             THEN /\ notices' = notices \cup {"WebSocket error"}
                  /\ response' = NoFrame
             ELSE /\ response' = LoopResult(responses)
                  /\ UNCHANGED notices
    /\ pc' = "apply"
    /\ UNCHANGED <<session, event, message, responses, nrecv, stopped,
                   raised, history, sendCalls>>

\* the finally clause (lines 122-127), then the return of line 118, 120
\* or 131
WsClose ==
    /\ pc = "ws_close"
    /\ \E ok \in BOOLEAN : ws' = IF ok THEN "closed" ELSE "close_failed"
    /\ IF raised
       THEN /\ notices' = notices \cup {"WebSocket error"}
            /\ response' = NoFrame
       ELSE /\ response' = LoopResult(responses)
            /\ UNCHANGED notices
    /\ pc' = "apply"
    /\ UNCHANGED <<session, event, message, responses, nrecv, stopped,
                   raised, history, sendCalls>>

(***************************************************************************)
(* chat_page after the call (lines 277-342).                               *)
(***************************************************************************)
\* lines 277-342 without lines 340-341: the pending message is kept
ApplyKeepingPending ==
    /\ pc = "apply"
    /\ IF ResponseTruthy(response) /\ ApplyRaises(response)
       THEN \* an uncaught AttributeError ends the run
            /\ pc' = "idle"
            /\ notices' = notices \cup {"AttributeError"}
            /\ UNCHANGED session
       ELSE /\ messages' = ApplyMessages(messages, response)
            /\ thread_id' = ApplyThread(thread_id, response)
            /\ scorecard_state' = ApplyState(scorecard_state, response)
            /\ is_loading' = FALSE
            /\ UNCHANGED pending_message
            /\ pc' = "L342"
            /\ UNCHANGED <<current_page, job_title, notices>>
    /\ message' = NoMessage
    /\ ws' = "none"
    /\ responses' = <<>>
    /\ nrecv' = 0
    /\ stopped' = "none"
    /\ raised' = FALSE
    /\ UNCHANGED <<event, response, history, sendCalls>>

Apply ==
    /\ pc = "apply"
    /\ IF ResponseTruthy(response) /\ ApplyRaises(response)
       THEN \* an uncaught AttributeError ends the run
            /\ pc' = "idle"
            /\ notices' = notices \cup {"AttributeError"}
            /\ UNCHANGED session
       ELSE /\ messages' = ApplyMessages(messages, response)
            /\ thread_id' = ApplyThread(thread_id, response)
            /\ scorecard_state' = ApplyState(scorecard_state, response)
            /\ is_loading' = FALSE
            /\ pending_message' = Absent
            /\ pc' = "L342"
            /\ UNCHANGED <<current_page, job_title, notices>>
    /\ message' = NoMessage
    /\ ws' = "none"
    /\ responses' = <<>>
    /\ nrecv' = 0
    /\ stopped' = "none"
    /\ raised' = FALSE
    /\ UNCHANGED <<event, response, history, sendCalls>>

Next ==
    \/ \E title \in JobTitles, thread \in ThreadInputs,
          h \in HistoryResults : ModalSubmit(title, thread, h)
    \/ \E ev \in ChatEvents : ChatRun(ev)
    \/ Rerun
    \/ WsConnect
    \/ WsSend
    \/ WsRecv
    \/ WsClose
    \/ Apply

Spec ==
    Init /\ [][Next]_vars

\* A run of the script goes on once it has started: st.rerun() starts the
\* next run, every network call returns (create_connection and recv within
\* their 30 s timeout) and the statements after it are executed.  Nothing
\* makes the user act, and nothing decides what a recv returns.
LiveSpec ==
    /\ Spec
    /\ WF_vars(Rerun)
    /\ WF_vars(WsConnect)
    /\ WF_vars(WsSend)
    /\ WF_vars(WsRecv)
    /\ WF_vars(WsClose)
    /\ WF_vars(Apply)

(***************************************************************************)
(* Properties.                                                             *)
(***************************************************************************)
InExchange ==
    pc \in {"ws_connect", "ws_send", "ws_recv", "ws_close"}

\* C1: a send issued while is_loading is true is rejected: the run it starts
\* records no new pending message and makes no call of
\* send_websocket_message.
C1_SendWhileLoadingRejected ==
    [][(pc = "idle" /\ current_page = "chat" /\ is_loading
        /\ event'.kind = "send" /\ event'.text # <<>>)
       => (pending_message' = pending_message /\ sendCalls' = sendCalls
           /\ ~InExchange')]_vars

\* C2: on every failure inside a send, an exception raised while the result
\* is applied included, the send step ends with is_loading false and the
\* user message it appended still in the log.
C2_LoadingResetAfterFailure ==
    [][(pc = "apply" /\ pc' # "apply")
       => (/\ ~is_loading'
           /\ Len(messages') >= Len(messages)
           /\ SubSeq(messages', 1, Len(messages)) = messages
           /\ messages[Len(messages)] = Msg("user", pending_message))]_vars

\* C3: a submit of the Create form with a job title and a thread id whose
\* history fetch fails leaves the page on Create and messages, scorecard
\* state, thread id, job title and loading flag as they were.
C3_FailedResumeLeavesStore ==
    [][(current_page = "modal" /\ pc = "idle" /\ event'.kind = "submit"
        /\ event'.text # <<>>
        /\ "Failed to load existing conversation" \in notices')
       => (/\ current_page' = "modal"
           /\ UNCHANGED <<messages, scorecard_state, thread_id, job_title,
                          is_loading>>)]_vars

\* C4: a submit of the Create form with a job title and no thread id enters
\* Chat with an empty message log and an empty scorecard state, whatever an
\* earlier session left behind.
C4_FreshCreateIsEmpty ==
    pc = "L194" => (messages = <<>> /\ scorecard_state = EmptyState)

\* an ai_message reply with a data envelope whose content is the str c
AiReplyWith(r) ==
    /\ r.text = "json" /\ r.json = "dict"
    /\ r.type = "ai_message" /\ r.data = "dict"

\* the content of r, trimmed and lower-cased, is the sentinel
SentinelContent(r) ==
    r.d_content.k = "str"
    /\ Strip(Lower(r.d_content.s)) = CONNECTION_ESTABLISHED

\* C5: applying an ai_message reply whose content, trimmed and lower-cased,
\* is "connection established" appends no message (the log stays the log
\* after the user message was appended), sets the thread id to a non-empty
\* thread_id of the reply and sets every section the reply carries.
C5_SentinelAppendsNothing ==
    [][(pc = "apply" /\ AiReplyWith(response) /\ SentinelContent(response))
       => (/\ messages' = messages
           /\ messages[Len(messages)] = Msg("user", pending_message)
           /\ thread_id' = IF response.d_thread.k = "str"
                              /\ response.d_thread.s # <<>>
                           THEN response.d_thread ELSE thread_id
           /\ \A n \in SectionNames :
                 response.d_sections[n].k = "dict"
                 /\ response.d_sections[n].d # {}
                 => scorecard_state'[n] = response.d_sections[n]
           /\ pc' = "L342")]_vars

\* a state C5 is about: a sentinel that needs trimming and case folding was
\* applied; it set the thread id and a section, and the log ends with the
\* user message
C5_Witness ==
    /\ pc = "L342"
    /\ response = Ai(Str(CE_VARIANT), Str(T1), PSit)
    /\ thread_id = Str(T1)
    /\ scorecard_state["situation"] = V1
    /\ messages = <<Msg("user", Str(HI))>>

C8_ThreadIdentity ==
    [][/\ (current_page = "chat" /\ thread_id' # thread_id)
          => (/\ pc = "apply" /\ AiReplyWith(response)
              /\ response.d_thread.k = "str" /\ response.d_thread.s # <<>>
              /\ thread_id' = response.d_thread)
       /\ (pc = "apply" /\ response = Ai(Str(GREAT), Str(T1), PSit))
          => (/\ thread_id' = Str(T1)
              /\ scorecard_state'["situation"] = V1
              /\ messages' = Append(messages,
                                    Msg("assistant", Str(GREAT))))]_vars

\* a state C8 is about: the backend replaced thread id T1 of the resumed
\* session by T2
C8_Witness ==
    /\ pc = "L342"
    /\ job_title = JOB
    /\ response.d_thread = Str(T2)
    /\ thread_id = Str(T2)
    /\ messages[1] = HistMessages[1]

\* C9 as stated: for every accepted send the message {user, the submitted
\* input} is appended in the step that calls send_websocket_message, before
\* any frame is read.
C9_AppendsSubmittedInput ==
    [][(pc = "L253" /\ pc' = "ws_connect")
       => (/\ messages' = Append(messages, [role |-> "user",
                                            content |-> Str(event.text)])
           /\ nrecv' = 0 /\ responses' = <<>>)]_vars

\* C9, amended: for every accepted send the message {user, the submitted
\* input stripped of leading and trailing whitespace} is appended in the
\* step that calls send_websocket_message, before any frame is read, and it
\* is the last element of the log for the whole of the call.
C9_OptimisticAppend ==
    /\ [][(pc = "L253" /\ pc' = "ws_connect")
          => (/\ messages' = Append(messages,
                                    [role |-> "user",
                                     content |-> Str(Strip(event.text))])
              /\ nrecv' = 0 /\ responses' = <<>>)]_vars
    /\ [](InExchange
          => (/\ Len(messages) > 0
              /\ messages[Len(messages)] = [role |-> "user",
                                            content |-> pending_message]
              /\ message.content = pending_message.s))

\* a state C9 is about: send_websocket_message was called for the input
\* ' hi\n', nothing was received yet, and the log ends with {user, 'hi'}
C9_Witness ==
    /\ pc = "ws_connect"
    /\ event = Event("send", HI_PADDED)
    /\ nrecv = 0
    /\ messages = <<Msg("user", Str(HI))>>

\* C10: applying the result of an exchange that recorded no frame (None)
\* changes nothing but the loading flag: the log (ending with the user
\* message), the thread id, the scorecard state, the job title and the page
\* stay, and is_loading becomes false.
C10_EmptyIsNoOp ==
    [][(pc = "apply" /\ response = NoFrame)
       => (/\ messages' = messages
           /\ messages[Len(messages)] = Msg("user", pending_message)
           /\ thread_id' = thread_id
           /\ scorecard_state' = scorecard_state
           /\ job_title' = job_title
           /\ current_page' = current_page
           /\ is_loading /\ ~is_loading'
           /\ pc' = "L342")]_vars

\* a state C10 is about: a read timed out before any frame, and the result
\* was applied to a session that held a thread id and sections
C10_Witness ==
    /\ pc = "L342"
    /\ response = NoFrame
    /\ notices = {}
    /\ ~is_loading
    /\ thread_id = Str(T1)
    /\ scorecard_state = PAllV1
    /\ messages = Append(HistMessages, Msg("user", Str(HI)))

\* C11: a submit of the Create form with a job title and a thread id whose
\* history fetch answers 200 with a JSON object enters Chat with the message
\* log equal to the body's messages and the scorecard state equal to the
\* body's state, each empty when the body lacks the field, whatever the
\* session held before.
C11_ResumeRoundTrip ==
    [][(current_page = "modal" /\ pc = "idle" /\ event'.kind = "submit"
        /\ event'.text # <<>> /\ history'.kind = "ok")
       => (/\ current_page' = "chat"
           /\ pc' = "L188"
           /\ messages' = IF history'.has_messages
                           THEN history'.body_messages ELSE <<>>
           /\ scorecard_state' = IF history'.has_state
                                  THEN history'.body_state
                                  ELSE EmptyState)]_vars

\* a state C11 is about: after an exchange of an earlier session, a resume
\* whose body holds a state and no messages entered Chat with an empty log
\* and that state
C11_Witness ==
    /\ pc = "L188"
    /\ sendCalls > 0
    /\ history.kind = "ok" /\ ~history.has_messages /\ history.has_state
    /\ messages = <<>>
    /\ scorecard_state = PSit

\* C12: while the page stays Chat the message log only grows at its end:
\* the log before every step is a prefix of the log after it.
C12_AppendOnly ==
    [][(current_page = "chat" /\ current_page' = "chat")
       => (/\ Len(messages') >= Len(messages)
           /\ \A i \in 1..Len(messages) : messages'[i] = messages[i])]_vars

\* a state C12 is about: a resumed log that grew by a user message and a
\* reply, its loaded messages still in place
C12_Witness ==
    /\ current_page = "chat"
    /\ pc = "idle"
    /\ messages = HistMessages \o <<Msg("user", Str(HI)),
                                    Msg("assistant", Str(GREAT))>>

\* C13: send_websocket_message is called only by the rerun that the
\* acceptance of a send starts (line 253), once, with one append of the
\* user message; no other run of the page calls it or appends.
C13_AtMostOnce ==
    [][(sendCalls' # sendCalls \/ (pc # "apply" /\ messages' # messages
                                   /\ current_page = "chat"))
       => (/\ pc = "L253"
           /\ sendCalls' = sendCalls + 1
           /\ Len(messages') = Len(messages) + 1)]_vars

\* a frame that satisfies a stop condition of the receive loop: its type is
\* "ai_message", or its data.content is a non-empty str
StopFrame(r) ==
    /\ r.text = "json" /\ r.json = "dict"
    /\ \/ r.type = "ai_message"
       \/ r.data = "dict" /\ r.d_content.k = "str" /\ r.d_content.s # <<>>

\* C14 as stated: send_websocket_message returns no result exactly when no
\* frame was recorded.
C14_NoResultIffNoFrame ==
    pc = "apply" => (response = NoFrame <=> Len(responses) = 0)

\* C14, amended: the receive loop reads on only while no recorded frame has
\* type "ai_message" or a non-empty data.content; send_websocket_message
\* returns the last frame recorded, which is None when that frame is the
\* JSON value null, and None when no frame was recorded.
C14_ReceiveLoopResult ==
    /\ [](pc = "ws_recv"
          => \A i \in 1..Len(responses) : ~StopFrame(responses[i]))
    /\ [](pc = "apply"
          => response = IF Len(responses) = 0 THEN NoFrame
                        ELSE responses[Len(responses)])
    /\ [](pc = "apply" /\ response = NoFrame /\ Len(responses) > 0
          => (stopped = "error" /\ ~raised))

\* a state C14 is about: a status frame, then an ai_message, which ended the
\* loop and is the result
C14_Witness ==
    /\ pc = "apply"
    /\ stopped = "break"
    /\ responses = <<StatusData, Ai(Str(GREAT), Str(T1), PSit)>>
    /\ response = Ai(Str(GREAT), Str(T1), PSit)

\* C19: a recorded frame that satisfies a stop condition ends the receive
\* loop at once and is the frame returned; a returned frame that satisfies
\* neither stop condition was returned by a loop that a timeout or an
\* exception ended.
C19_StopFrameIsResult ==
    /\ [][(pc = "ws_recv" /\ responses' # responses
           /\ StopFrame(responses'[Len(responses')]))
          => (pc' = "ws_close" /\ stopped' = "break")]_vars
    /\ [](pc = "apply" /\ stopped = "break"
          => (/\ Len(responses) > 0
              /\ response = responses[Len(responses)]
              /\ StopFrame(response)
              /\ \A i \in 1..(Len(responses) - 1) :
                    ~StopFrame(responses[i])))
    /\ [](pc = "apply" /\ response.text # "none" /\ ~StopFrame(response)
          => stopped \in {"timeout", "decode", "error"})

\* a state C19 is about: a frame that is no ai_message and carries a
\* data.content ended the loop after an earlier frame, and is the result
C19_Witness ==
    /\ pc = "apply"
    /\ stopped = "break"
    /\ Len(responses) = 2
    /\ response.type = "status"
    /\ response.d_content = Str(GREAT)

\* C15: an exchange that reached the receive loop runs to completion: the
\* loop stops and send_websocket_message returns to chat_page (line 277),
\* whatever frames the backend sends.
C15_ExchangeCompletes ==
    (pc = "ws_recv") ~> (pc = "apply")

\* C16: a connection is open only inside send_websocket_message; the call
\* closes it before it returns on every path on which it was opened (after
\* a failed send, a stop condition, a timeout, a failed read), and whether
\* ws.close() succeeds or raises the call returns the same result and shows
\* the same notices.
C16_ConnectionScoped ==
    /\ [](ws = "open" <=> pc \in {"ws_send", "ws_recv", "ws_close"})
    /\ [](pc = "apply"
          => (ws \in {"closed", "close_failed"} <=> message.type # "none"
                                                   /\ (raised \/ stopped # "none")))
    /\ [][pc = "ws_close"
          => (/\ ws' \in {"closed", "close_failed"}
              /\ pc' = "apply"
              /\ notices' = IF raised THEN notices \cup {"WebSocket error"}
                            ELSE notices
              /\ response' = IF raised \/ Len(responses) = 0 THEN NoFrame
                             ELSE responses[Len(responses)])]_vars

\* a state C16 is about: ws.close() raised after a reply was received, and
\* the call returned the reply and showed no error
C16_Witness ==
    /\ pc = "apply"
    /\ ws = "close_failed"
    /\ response = Ai(Str(GREAT), Str(T1), PSit)
    /\ notices = {}

\* C17 as stated: the result of an exchange whose receive loop a frame that
\* fails to decode ended is applied without an exception and appends no
\* message, and leaves thread id and scorecard state unchanged.
C17_MalformedIsEmpty ==
    [][(pc = "apply" /\ stopped = "decode")
       => (/\ pc' = "L342"
           /\ messages' = messages
           /\ thread_id' = thread_id
           /\ scorecard_state' = scorecard_state)]_vars

\* C17, amended: a frame that fails to decode ends the receive loop and is
\* not itself returned; the call returns the last frame recorded before it.
\* Applying that result raises nothing, resets is_loading and leaves thread
\* id and scorecard state unchanged; it appends no message when no frame,
\* or the frame {}, was recorded before, and otherwise one assistant message
\* with that frame's top-level content ('Response received' without one).
C17_MalformedFrame ==
    /\ [](pc = "apply" /\ stopped = "decode"
          => (/\ response.text # "bad"
              /\ response = IF Len(responses) = 0 THEN NoFrame
                            ELSE responses[Len(responses)]))
    /\ [][(pc = "apply" /\ stopped = "decode")
          => (/\ pc' = "L342"
              /\ ~is_loading'
              /\ thread_id' = thread_id
              /\ scorecard_state' = scorecard_state
              /\ messages' =
                    IF \/ Len(responses) = 0
                       \/ /\ responses[Len(responses)].type = "absent"
                          /\ responses[Len(responses)].data = "absent"
                          /\ responses[Len(responses)].content.k = "absent"
                    THEN messages
                    ELSE Append(messages,
                           [role |-> "assistant",
                            content |->
                              IF responses[Len(responses)].content.k = "absent"
                              THEN Str(RESPONSE_RECEIVED)
                              ELSE responses[Len(responses)].content]))]_vars

\* a state C17 is about: a status frame was recorded, the next frame failed
\* to decode, and the call returned the status frame to a session with no
\* thread id
C17_Witness ==
    /\ pc = "apply"
    /\ stopped = "decode"
    /\ nrecv = 2
    /\ response = StatusData
    /\ thread_id = None

\* a reply that is a JSON object and no ai_message with a data envelope
LegacyReply(r) ==
    /\ r.text = "json" /\ r.json = "dict"
    /\ ~(r.type = "ai_message" /\ r.data # "absent")

\* C18 as stated: applying a returned reply that is no ai_message with a
\* data envelope appends one assistant message with the reply's top-level
\* content and changes neither thread id nor scorecard state.
C18_LegacyAppendsContent ==
    [][(pc = "apply" /\ response.text = "json"
        /\ ~(response.type = "ai_message" /\ response.data # "absent"))
       => (/\ messages' = Append(messages, [role |-> "assistant",
                                            content |-> response.content])
           /\ thread_id' = thread_id
           /\ scorecard_state' = scorecard_state)]_vars

\* C18, amended: applying a returned reply that is a JSON object and no
\* ai_message with a data envelope changes neither thread id nor scorecard
\* state, whatever its data holds; it appends nothing when the reply is {},
\* and otherwise one assistant message with the reply's top-level content,
\* 'Response received' when it has none.  A returned reply that is a JSON
\* array is not applied: the run ends with an AttributeError.
C18_LegacyReply ==
    /\ [][(pc = "apply" /\ LegacyReply(response))
          => (/\ pc' = "L342"
              /\ thread_id' = thread_id
              /\ scorecard_state' = scorecard_state
              /\ messages' =
                    IF /\ response.type = "absent"
                       /\ response.data = "absent"
                       /\ response.content.k = "absent"
                    THEN messages
                    ELSE Append(messages,
                           [role |-> "assistant",
                            content |-> IF response.content.k = "absent"
                                        THEN Str(RESPONSE_RECEIVED)
                                        ELSE response.content]))]_vars
    /\ [][(pc = "apply" /\ response.json = "list")
          => (pc' = "idle" /\ UNCHANGED session)]_vars

\* a state C18 is about: a status frame with a thread id and a section in
\* its data and no content was applied to a fresh session: one message
\* 'Response received', no thread id, no section
C18_Witness ==
    /\ pc = "L342"
    /\ response = StatusData
    /\ thread_id = None
    /\ scorecard_state = EmptyState
    /\ messages = <<Msg("user", Str(HI)),
                    Msg("assistant", Str(RESPONSE_RECEIVED))>>

\* C20: is_loading is true exactly when a pending_message is recorded, in
\* every state; the acceptance of a send sets both and the end of the send
\* step (lines 339-342) clears both.
C20_LoadingIffPending ==
    /\ [](is_loading <=> pending_message.k # "absent")
    /\ [][/\ pc' = "L253" /\ pc # "L253"
             => (/\ ~is_loading /\ is_loading'
                 /\ pending_message' = [k |-> "str", s |-> Strip(event'.text)])
          /\ pc' = "L342"
             => (/\ is_loading /\ ~is_loading'
                 /\ pending_message.k = "str"
                 /\ pending_message'.k = "absent")]_vars

\* a state C20 is about: a second send was accepted after the first was
\* processed and cleared
C20_Witness ==
    /\ pc = "L253"
    /\ sendCalls = 1
    /\ is_loading
    /\ pending_message = Str(HI)
    /\ Len(messages) = 2

====
